---- MODULE Spec2Model ----
(***************************************************************************)
(* State-machine model of the props inventory service (src/app.py): the    *)
(* props table, the locations table, the upload folder, and one action per *)
(* HTTP handler.                                                           *)
(*                                                                         *)
(* Text is a sequence of one-character strings, so that strip(), LIKE and  *)
(* string comparison are computed as Python and SQLite compute them.       *)
(* None stands for Python's None and SQL's NULL.                           *)
(*                                                                         *)
(* The environment may fail a handler where the code catches the failure:  *)
(* a photo may not decode or not be written, os.remove may raise, and a    *)
(* statement that writes a table may raise sqlite3.Error (dbFails).        *)
(* SELECT statements are taken to succeed.  Requests are served one at a   *)
(* time.  The column props.file holds json.dumps of the list of names and  *)
(* every reader applies json.loads: the model keeps the list.              *)
(***************************************************************************)
EXTENDS Integers, Sequences, FiniteSets, TLC

VARIABLES
    props,      \* table props: id -> row
    propSeq,    \* sqlite_sequence of props (AUTOINCREMENT): largest id ever committed
    locations,  \* table locations: id -> name
    locSeq,     \* sqlite_sequence of locations
    files,      \* names of the files present in UPLOAD_FOLDER
    uuidCount,  \* number of uuid4 values drawn so far (each one is new)
    resp,       \* the request just answered and its response
    deleted     \* history: ids for which delete_prop answered 200

vars == <<props, propSeq, locations, locSeq, files, uuidCount, resp, deleted>>

-----------------------------------------------------------------------------
(* Bounds of the model *)

MaxProps == 2
MaxUuid == 2
MaxPhotos == 2

-----------------------------------------------------------------------------
(* Text and JSON values *)

None == <<"None">>

JStr(s) == [t |-> "str", s |-> s, n |-> 0]
JInt(n) == [t |-> "int", s |-> <<>>, n |-> n]
\* a float with a fractional part: n halves, so JHalf(5) is 2.5
JHalf(n) == [t |-> "float", s |-> <<>>, n |-> n]
JNull == [t |-> "null", s |-> <<>>, n |-> 0]
JList(items) == [t |-> "list", s |-> <<>>, n |-> 0, items |-> items]

\* dict.get(key): the value, or None when the key is absent
Get(data, key) == IF key \in DOMAIN data THEN data[key] ELSE JNull

\* the value bound to a TEXT parameter: a str as itself, None as NULL
SqlText(j) == IF j.t = "str" THEN j.s ELSE None

IsSpace(c) == c = " "

RECURSIVE lstrip(_)
lstrip(s) == IF s # <<>> /\ IsSpace(Head(s)) THEN lstrip(Tail(s)) ELSE s

RECURSIVE rstrip(_)
rstrip(s) ==
    IF s # <<>> /\ IsSpace(s[Len(s)]) THEN rstrip(SubSeq(s, 1, Len(s) - 1)) ELSE s

strip(s) == rstrip(lstrip(s))

\* Python truthiness of a JSON value
Truthy(j) ==
    CASE j.t = "null" -> FALSE
      [] j.t = "str" -> j.s # <<>>
      [] j.t = "int" -> j.n # 0
      [] j.t = "float" -> j.n # 0
      [] j.t = "list" -> j.items # <<>>

-----------------------------------------------------------------------------
(* Locations *)

UniqueNameTakenNever(name) == FALSE

\* the UNIQUE constraint on locations.name (BINARY collation: exact match)
UniqueNameTaken(name) == \E id \in DOMAIN locations : locations[id] = name

\* POST /api/locations
add_location_api(name, dbFails) ==
    /\ UNCHANGED <<props, propSeq, files, uuidCount, deleted>>
    /\ IF ~Truthy(name) \/ strip(name.s) = <<>>
       THEN /\ resp' = [op |-> "add_location_api", name |-> name, status |-> 400]
            /\ UNCHANGED <<locations, locSeq>>
       ELSE LET location_name == strip(name.s) IN
            IF UniqueNameTaken(location_name)
            THEN /\ resp' = [op |-> "add_location_api", name |-> name, status |-> 409]
                 /\ UNCHANGED <<locations, locSeq>>
            ELSE IF dbFails
            THEN /\ resp' = [op |-> "add_location_api", name |-> name, status |-> 500]
                 /\ UNCHANGED <<locations, locSeq>>
            ELSE /\ locations' = [id \in DOMAIN locations \cup {locSeq + 1} |->
                                    IF id = locSeq + 1 THEN location_name
                                    ELSE locations[id]]
                 /\ locSeq' = locSeq + 1
                 /\ resp' = [op |-> "add_location_api", name |-> name, status |-> 201,
                             id |-> locSeq + 1]

-----------------------------------------------------------------------------
(* int(x) of Python *)

DigitVal ==
    "0" :> 0 @@ "1" :> 1 @@ "2" :> 2 @@ "3" :> 3 @@ "4" :> 4 @@
    "5" :> 5 @@ "6" :> 6 @@ "7" :> 7 @@ "8" :> 8 @@ "9" :> 9

IsDigits(s) == s # <<>> /\ \A i \in 1..Len(s) : s[i] \in DOMAIN DigitVal

RECURSIVE DigitsValue(_)
DigitsValue(s) ==
    IF s = <<>> THEN 0
    ELSE 10 * DigitsValue(SubSeq(s, 1, Len(s) - 1)) + DigitVal[s[Len(s)]]

\* int(str): surrounding whitespace is ignored, one optional sign, then digits
ParseInt(s) ==
    LET u == strip(s)
        signed == u # <<>> /\ Head(u) \in {"-", "+"}
        body == IF signed THEN Tail(u) ELSE u
    IN  IF IsDigits(body)
        THEN [ok |-> TRUE,
              v |-> IF signed /\ Head(u) = "-" THEN 0 - DigitsValue(body)
                    ELSE DigitsValue(body)]
        ELSE [ok |-> FALSE, v |-> 0]

\* int(float) truncates towards zero
TruncHalf(n) == IF n >= 0 THEN n \div 2 ELSE 0 - ((0 - n) \div 2)

\* int(x): ok is FALSE where Python raises ValueError or TypeError
PyInt(j) ==
    CASE j.t = "int" -> [ok |-> TRUE, v |-> j.n]
      [] j.t = "float" -> [ok |-> TRUE, v |-> TruncHalf(j.n)]
      [] j.t = "str" -> ParseInt(j.s)
      [] OTHER -> [ok |-> FALSE, v |-> 0]

-----------------------------------------------------------------------------
(* Photos: the data URL of a photo is one of these shapes                  *)
(*   notstr     not a string                                               *)
(*   nocomma    a string without ","                                       *)
(*   badheader  the header does not start with "data:image/"               *)
(*   badb64     "data:image/png;base64," followed by text b64decode rejects*)
(*   png        "data:image/png;base64," followed by valid base64          *)
(*   noext      "data:image/;base64," followed by valid base64             *)
(* and the file system answers the write of a decoded photo with one of    *)
(*   saved      the file is written and found by os.path.exists            *)
(*   openfails  open() raises: no file                                     *)
(*   writefails write() raises after open() created the file               *)
(*   vanished   the write returns but os.path.exists finds no file         *)

\* lines 159-166: the extension when the payload decodes, "" when it raises
DecodedExt(photo) ==
    CASE photo.kind = "png" -> "png"
      [] photo.kind = "noext" -> "jpg"
      [] OTHER -> ""

NoFile == [hex |-> 0, ext |-> ""]

\* line 167: prop_<uuid4 hex>.<ext>
FileName(hex, ext) == [hex |-> hex, ext |-> ext]

ListedAlways(photo) == DecodedExt(photo) # "" /\ photo.fs \in {"saved", "vanished"}

\* line 171: the name is appended only when the file is found after the write
Listed(photo) == DecodedExt(photo) # "" /\ photo.fs = "saved"

\* whether a file is left in the folder by the photo (listed or not)
LeavesFile(photo) == DecodedExt(photo) # "" /\ photo.fs \in {"saved", "writefails"}

AppendNameFront(names, name) == <<name>> \o names

AppendName(names, name) == Append(names, name)

\* lines 154-173: the loop over data['photos'], from the state st =
\* [names: photo_filenames, fs: the folder, uuid: uuids drawn, saved: per photo]
RECURSIVE SavePhotos(_, _)
SavePhotos(photos, st) ==
    IF photos = <<>> THEN st
    ELSE LET photo == Head(photos)
             ext == DecodedExt(photo)
             name == FileName(st.uuid + 1, ext)
         IN  SavePhotos(Tail(photos),
                 IF ext = ""
                 THEN [st EXCEPT !.saved = Append(@, NoFile)]
                 ELSE [names |-> IF Listed(photo) THEN AppendName(st.names, name)
                                 ELSE st.names,
                       fs |-> IF LeavesFile(photo) THEN st.fs \cup {name} ELSE st.fs,
                       uuid |-> st.uuid + 1,
                       saved |-> Append(st.saved,
                                        IF Listed(photo) THEN name ELSE NoFile)])

-----------------------------------------------------------------------------
(* Props *)

\* lines 136-152: 0 when the payload passes, else the status of the refusal
AddPropRefusal(data) ==
    IF "storageId" \notin DOMAIN data THEN 400
    ELSE IF "photos" \notin DOMAIN data THEN 400
    ELSE IF "timestamp" \notin DOMAIN data THEN 400
    ELSE IF "location" \notin DOMAIN data THEN 400
    ELSE IF data.location.t = "null" THEN 400
    ELSE IF data.location.t = "str" /\ strip(data.location.s) = <<>> THEN 400
    ELSE IF "quantity" \notin DOMAIN data THEN 400
    ELSE IF data.quantity.t # "int" /\ ~PyInt(data.quantity).ok THEN 400
    ELSE IF data.storageId.t # "str" THEN 500  \* AttributeError, unhandled
    ELSE IF strip(data.storageId.s) = <<>> THEN 400
    ELSE IF data.photos.t # "list" THEN 400
    ELSE 0

\* line 183: int(data.get('quantity', 1))
InsertedQuantity(data) ==
    IF "quantity" \in DOMAIN data THEN PyInt(data.quantity).v ELSE 1

\* line 53: INTEGER PRIMARY KEY AUTOINCREMENT never reuses an id
NextRowId == propSeq + 1

\* POST /api/add_prop
add_prop(data, dbFails) ==
    /\ UNCHANGED <<locations, locSeq, deleted>>
    /\ IF AddPropRefusal(data) # 0
       THEN /\ resp' = [op |-> "add_prop", data |-> data,
                        status |-> AddPropRefusal(data)]
            /\ UNCHANGED <<props, propSeq, files, uuidCount>>
       ELSE LET st == SavePhotos(data.photos.items,
                        [names |-> <<>>, fs |-> files, uuid |-> uuidCount,
                         saved |-> <<>>])
                row == [id |-> NextRowId,
                        Location |-> SqlText(Get(data, "location")),
                        Storage_id |-> SqlText(Get(data, "storageId")),
                        Description |-> SqlText(Get(data, "description")),
                        Keywords |-> SqlText(Get(data, "keywords")),
                        Category |-> SqlText(Get(data, "category")),
                        Status |-> SqlText(Get(data, "status")),
                        Quantity |-> InsertedQuantity(data),
                        file |-> st.names,
                        timestamp |-> SqlText(Get(data, "timestamp"))]
            IN  /\ files' = st.fs
                /\ uuidCount' = st.uuid
                /\ IF dbFails
                   THEN /\ resp' = [op |-> "add_prop", data |-> data, status |-> 500,
                                    saved |-> st.saved]
                        /\ UNCHANGED <<props, propSeq>>
                   ELSE /\ props' = [id \in DOMAIN props \cup {row.id} |->
                                        IF id = row.id THEN row ELSE props[id]]
                        /\ propSeq' = row.id
                        /\ resp' = [op |-> "add_prop", data |-> data, status |-> 201,
                                    id |-> row.id, saved |-> st.saved]

\* GET /api/prop/<id>
PropById(prop_id) ==
    IF prop_id \in DOMAIN props
    THEN [status |-> 200, prop |-> props[prop_id]]
    ELSE [status |-> 404, prop |-> None]

get_prop_by_id(prop_id) ==
    /\ resp' = [op |-> "get_prop_by_id", id |-> prop_id,
                status |-> PropById(prop_id).status]
    /\ UNCHANGED <<props, propSeq, locations, locSeq, files, uuidCount, deleted>>

UpdateRefusalLax(data) ==
    LET quantity == Get(data, "Quantity")
    IN  IF quantity.t # "null" /\ ~PyInt(quantity).ok THEN 400
        ELSE IF quantity.t # "null" /\ PyInt(quantity).v < 0 THEN 400
        ELSE 0

\* lines 271-281: 0 when the body passes, else the status of the refusal
UpdateRefusal(data) ==
    LET storage_id == Get(data, "Storage_id")
        location == Get(data, "Location")
        quantity == Get(data, "Quantity")
    IN  IF storage_id.t = "str" /\ strip(storage_id.s) = <<>> THEN 400
        ELSE IF location.t = "str" /\ strip(location.s) = <<>> THEN 400
        ELSE IF quantity.t # "null" /\ ~PyInt(quantity).ok THEN 400
        ELSE IF quantity.t # "null" /\ PyInt(quantity).v < 0 THEN 400
        ELSE 0

\* lines 275-289: the quantity bound to the UPDATE
UpdatedQuantity(prop_id, data) ==
    IF Get(data, "Quantity").t # "null" THEN PyInt(Get(data, "Quantity")).v
    ELSE IF prop_id \in DOMAIN props THEN props[prop_id].Quantity
    ELSE 1

\* lines 297-307: the row after the UPDATE statement
UpdatedRow(row, data, quantity) ==
    [row EXCEPT !.Location = SqlText(Get(data, "Location")),
                !.Storage_id = SqlText(Get(data, "Storage_id")),
                !.Description = SqlText(Get(data, "Description")),
                !.Keywords = SqlText(Get(data, "Keywords")),
                !.Category = SqlText(Get(data, "Category")),
                !.Status = SqlText(Get(data, "Status")),
                !.Quantity = quantity]

\* PUT /api/prop/<id>
update_prop(prop_id, data, dbFails) ==
    /\ UNCHANGED <<propSeq, locations, locSeq, files, uuidCount, deleted>>
    /\ IF UpdateRefusal(data) # 0
       THEN /\ resp' = [op |-> "update_prop", id |-> prop_id, data |-> data,
                        status |-> UpdateRefusal(data)]
            /\ UNCHANGED props
       ELSE IF prop_id \notin DOMAIN props
       THEN /\ resp' = [op |-> "update_prop", id |-> prop_id, data |-> data,
                        status |-> 404]
            /\ UNCHANGED props
       ELSE LET row == UpdatedRow(props[prop_id], data, UpdatedQuantity(prop_id, data))
            IN  \* Storage_id TEXT NOT NULL: IntegrityError is an sqlite3.Error
                IF row.Storage_id = None \/ dbFails
                THEN /\ resp' = [op |-> "update_prop", id |-> prop_id, data |-> data,
                                 status |-> 500]
                     /\ UNCHANGED props
                ELSE /\ props' = [props EXCEPT ![prop_id] = row]
                     /\ resp' = [op |-> "update_prop", id |-> prop_id, data |-> data,
                                 status |-> 200]

RemoveNothing(names, fs, stuck) == fs

\* lines 328-334: os.remove of each file found; the first removal that raises
\* ends the loop (stuck: the files the file system refuses to remove)
RECURSIVE RemoveFiles(_, _, _)
RemoveFiles(names, fs, stuck) ==
    IF names = <<>> THEN fs
    ELSE IF Head(names) \notin fs THEN RemoveFiles(Tail(names), fs, stuck)
    ELSE IF Head(names) \in stuck THEN fs
    ELSE RemoveFiles(Tail(names), fs \ {Head(names)}, stuck)

\* DELETE /api/prop/<id>
delete_prop(prop_id, stuck, dbFails) ==
    /\ UNCHANGED <<propSeq, locations, locSeq, uuidCount>>
    /\ IF prop_id \notin DOMAIN props
       THEN /\ resp' = [op |-> "delete_prop", id |-> prop_id, status |-> 404]
            /\ UNCHANGED <<props, files, deleted>>
       ELSE /\ files' = RemoveFiles(props[prop_id].file, files, stuck)
            /\ IF dbFails
               THEN /\ resp' = [op |-> "delete_prop", id |-> prop_id, status |-> 500,
                                file |-> props[prop_id].file, stuck |-> stuck]
                    /\ UNCHANGED <<props, deleted>>
               ELSE /\ props' = [id \in DOMAIN props \ {prop_id} |-> props[id]]
                    /\ deleted' = deleted \cup {prop_id}
                    /\ resp' = [op |-> "delete_prop", id |-> prop_id, status |-> 200,
                                file |-> props[prop_id].file, stuck |-> stuck]

-----------------------------------------------------------------------------
(* Listing and search *)

UpperCase ==
    <<"A", "B", "C", "D", "E", "F", "G", "H", "I", "J", "K", "L", "M",
      "N", "O", "P", "Q", "R", "S", "T", "U", "V", "W", "X", "Y", "Z">>

LowerCase ==
    <<"a", "b", "c", "d", "e", "f", "g", "h", "i", "j", "k", "l", "m",
      "n", "o", "p", "q", "r", "s", "t", "u", "v", "w", "x", "y", "z">>

\* the characters of the model in the order of their codes
Ascii ==
    <<" ", "%", "+", "-">> \o
    <<"0", "1", "2", "3", "4", "5", "6", "7", "8", "9">> \o
    UpperCase \o <<"_">> \o LowerCase

CharCode(c) == CHOOSE i \in 1..Len(Ascii) : Ascii[i] = c

\* LIKE folds the case of ASCII letters
Lower(c) ==
    IF \E i \in 1..26 : UpperCase[i] = c
    THEN LowerCase[CHOOSE i \in 1..26 : UpperCase[i] = c]
    ELSE c

\* SQLite's LIKE without ESCAPE: % is any text, _ is any one character
RECURSIVE Like(_, _)
Like(pattern, text) ==
    IF pattern = <<>> THEN text = <<>>
    ELSE IF Head(pattern) = "%"
    THEN Like(Tail(pattern), text) \/ (text # <<>> /\ Like(pattern, Tail(text)))
    ELSE /\ text # <<>>
         /\ Head(pattern) = "_" \/ Lower(Head(pattern)) = Lower(Head(text))
         /\ Like(Tail(pattern), Tail(text))

\* column LIKE ?: NULL LIKE ? is NULL, which WHERE takes as false
ColumnLike(column, pattern) == column # None /\ Like(pattern, column)

\* lines 205-214: the WHERE clause
Matches(row, search_query) ==
    LET like_query == <<"%">> \o search_query \o <<"%">>
    IN  \/ ColumnLike(row.Storage_id, like_query)
        \/ ColumnLike(row.Description, like_query)
        \/ ColumnLike(row.Keywords, like_query)
        \/ ColumnLike(row.Category, like_query)
        \/ ColumnLike(row.Location, like_query)

\* comparison of TEXT under BINARY collation; NULL sorts before every text
RECURSIVE TextLess(_, _)
TextLess(a, b) ==
    IF a = None THEN b # None
    ELSE IF b = None THEN FALSE
    ELSE IF a = <<>> THEN b # <<>>
    ELSE IF b = <<>> THEN FALSE
    ELSE IF Head(a) = Head(b) THEN TextLess(Tail(a), Tail(b))
    ELSE CharCode(Head(a)) < CharCode(Head(b))

\* ORDER BY timestamp DESC: any order of ids with no earlier timestamp first
OrderedDesc(ids) ==
    \A i \in 1..(Len(ids) - 1) :
        ~TextLess(props[ids[i]].timestamp, props[ids[i + 1]].timestamp)

Orderings(S) ==
    { ids \in [1..Cardinality(S) -> S] :
        /\ \A i, j \in 1..Cardinality(S) : i # j => ids[i] # ids[j]
        /\ OrderedDesc(ids) }

\* lines 199-216: the ids the query selects
Selected(search) ==
    LET search_query == strip(search)
    IN  IF search_query # <<>>
        THEN { id \in DOMAIN props : Matches(props[id], search_query) }
        ELSE DOMAIN props

\* GET /api/props?search=
get_props(search) ==
    /\ \E ids \in Orderings(Selected(search)) :
          resp' = [op |-> "get_props", search |-> search, status |-> 200, list |-> ids]
    /\ UNCHANGED <<props, propSeq, locations, locSeq, files, uuidCount, deleted>>

-----------------------------------------------------------------------------

Init ==
    /\ props = <<>>
    /\ propSeq = 0
    /\ locations = <<>>
    /\ locSeq = 0
    /\ files = {}
    /\ uuidCount = 0
    /\ resp = [op |-> "none", status |-> 0]
    /\ deleted = {}

-----------------------------------------------------------------------------
(* Requests *)

PropIds == 1..(MaxProps + 1)

BasePayload ==
    [storageId |-> JStr(<<"s", "1">>), location |-> JStr(<<"w">>),
     timestamp |-> JStr(<<"1">>), quantity |-> JInt(2), photos |-> JList(<<>>)]

\* a photo of the request together with the file system's answer to its write
PhotoCases ==
    { [kind |-> "badb64", fs |-> "saved"], [kind |-> "png", fs |-> "saved"],
      [kind |-> "png", fs |-> "writefails"], [kind |-> "png", fs |-> "vanished"],
      [kind |-> "noext", fs |-> "saved"] }

PhotoLists == UNION { [1..n -> PhotoCases] : n \in 0..MaxPhotos }

PhotoPayloads ==
    { [BasePayload EXCEPT !.photos = JList(ps)] : ps \in PhotoLists }
        \cup { [BasePayload EXCEPT !.photos = JNull] }

\* the requests of the specification of the whole life of a prop: photos that
\* are saved (files without a row come from a failed INSERT)
FewPhotoCases == { [kind |-> "png", fs |-> "saved"] }

FewPhotoPayloads ==
    { [BasePayload EXCEPT !.photos = JList(ps)] :
        ps \in UNION { [1..n -> FewPhotoCases] : n \in 0..MaxPhotos } }

LifeBodies ==
    { [Storage_id |-> JStr(<<"s", "1">>), Location |-> JStr(<<"w">>),
       Status |-> JStr(<<"o">>)],
      [Status |-> JStr(<<"o">>)] }

StatusBodies ==
    { [Storage_id |-> JStr(<<"s", "1">>), Location |-> JStr(<<"w">>),
       Status |-> JStr(<<"o">>)],
      [Status |-> JStr(<<"o">>)],
      [Storage_id |-> JStr(<<" ">>), Status |-> JStr(<<"o">>)],
      [Storage_id |-> JStr(<<"s", "1">>), Location |-> JStr(<<>>)],
      [Storage_id |-> JStr(<<"s", "1">>), Quantity |-> JInt(-1)],
      [Storage_id |-> JStr(<<"s", "1">>), Location |-> JStr(<<"w">>),
       Quantity |-> JHalf(5)] }

FilesOf(prop_id) ==
    IF prop_id \in DOMAIN props
    THEN { props[prop_id].file[i] : i \in 1..Len(props[prop_id].file) }
    ELSE {}

\* the bounds: at most MaxProps ids and MaxUuid uuids are ever drawn
WithinBounds(data, dbFails) ==
    /\ dbFails \/ propSeq < MaxProps
    /\ data.photos.t = "list" => uuidCount + Len(data.photos.items) <= MaxUuid

AddProp ==
    \E data \in FewPhotoPayloads, dbFails \in BOOLEAN :
        WithinBounds(data, dbFails) /\ add_prop(data, dbFails)

AddPropPhotos ==
    \E data \in PhotoPayloads, dbFails \in BOOLEAN :
        WithinBounds(data, dbFails) /\ add_prop(data, dbFails)

GetPropById == \E prop_id \in PropIds : get_prop_by_id(prop_id)

UpdateProp ==
    \E prop_id \in PropIds, data \in LifeBodies, dbFails \in BOOLEAN :
        update_prop(prop_id, data, dbFails)

DeleteProp ==
    \E prop_id \in PropIds, dbFails \in BOOLEAN :
        \E stuck \in SUBSET FilesOf(prop_id) : delete_prop(prop_id, stuck, dbFails)

Next == AddProp \/ GetPropById \/ UpdateProp \/ DeleteProp

Spec == Init /\ [][Next]_vars

AddPropSaved ==
    \E data \in FewPhotoPayloads : WithinBounds(data, FALSE) /\ add_prop(data, FALSE)

UpdatePropBodies ==
    \E prop_id \in PropIds, data \in StatusBodies, dbFails \in BOOLEAN :
        update_prop(prop_id, data, dbFails)

DeletePropPlain == \E prop_id \in PropIds : delete_prop(prop_id, {}, FALSE)

UpdateNext == AddPropSaved \/ UpdatePropBodies \/ DeletePropPlain

UpdateSpec == Init /\ [][UpdateNext]_vars

PhotoNext == AddPropPhotos \/ GetPropById

PhotoSpec == Init /\ [][PhotoNext]_vars

(* Requests that vary the fields of a prop *)

Without(data, key) == [k \in DOMAIN data \ {key} |-> data[k]]

FullPayload ==
    [storageId |-> JStr(<<"s", "1">>), location |-> JStr(<<"w">>),
     description |-> JStr(<<"d">>), keywords |-> JStr(<<"k">>),
     category |-> JStr(<<"c">>), status |-> JStr(<<"i">>),
     timestamp |-> JStr(<<"1">>), quantity |-> JInt(2), photos |-> JList(<<>>)]

Quantities ==
    { JInt(-1), JHalf(5), JStr(<<>>), JStr(<<" ", "3">>), JStr(<<"x">>), JNull }

FieldPayloads ==
    { FullPayload, Without(FullPayload, "quantity"), Without(BasePayload, "quantity"),
      Without(FullPayload, "storageId"),
      [FullPayload EXCEPT !.storageId = JStr(<<" ">>)],
      [FullPayload EXCEPT !.location = JStr(<<" ">>)],
      [FullPayload EXCEPT !.photos = JNull] }
        \cup { [BasePayload EXCEPT !.quantity = q] : q \in Quantities }

FieldBodies ==
    { [Status |-> JStr(<<"o">>)],
      [Storage_id |-> JStr(<<"s", "1">>), Status |-> JStr(<<"o">>)],
      [Storage_id |-> JStr(<<"s", "2">>), Location |-> JStr(<<"v">>),
       Description |-> JStr(<<"e">>), Keywords |-> JStr(<<"l">>),
       Category |-> JStr(<<"b">>), Status |-> JStr(<<"o">>), Quantity |-> JInt(5)],
      [Storage_id |-> JStr(<<" ">>)],
      [Storage_id |-> JStr(<<"s", "1">>), Location |-> JStr(<<>>)],
      [Storage_id |-> JStr(<<"s", "1">>), Quantity |-> JInt(-1)],
      [Storage_id |-> JStr(<<"s", "1">>), Quantity |-> JStr(<<"x">>)],
      [Storage_id |-> JStr(<<"s", "1">>), Quantity |-> JHalf(3)] }

AddPropFields ==
    \E data \in FieldPayloads : propSeq < MaxProps /\ add_prop(data, FALSE)

UpdatePropFields ==
    \E prop_id \in PropIds, data \in FieldBodies : update_prop(prop_id, data, FALSE)

FieldNext == AddPropFields \/ UpdatePropFields \/ GetPropById

FieldSpec == Init /\ [][FieldNext]_vars

-----------------------------------------------------------------------------
(* Requests that search *)

SearchPayloads ==
    { [BasePayload EXCEPT !.timestamp = JStr(<<"1", "0">>)]
          @@ [category |-> JStr(<<"A", "b">>)],
      [BasePayload EXCEPT !.storageId = JStr(<<"s", "_">>), !.timestamp = JStr(<<"2">>)]
          @@ [description |-> JStr(<<"a", "b">>)],
      [BasePayload EXCEPT !.location = JStr(<<"B", "%">>)] }

SearchTerms ==
    { <<>>, <<" ">>, <<"a", "b">>, <<"A">>, <<"s", "1">>, <<" ", "w">>, <<"z">>,
      <<"_">>, <<"%">>, <<"s", "_">> }

AddPropSearch == \E data \in SearchPayloads : propSeq < MaxProps /\ add_prop(data, FALSE)

GetProps == \E search \in SearchTerms : get_props(search)

SearchNext == AddPropSearch \/ GetProps

SearchSpec == Init /\ [][SearchNext]_vars

-----------------------------------------------------------------------------
LocationNames ==
    { JNull, JStr(<<>>), JStr(<<" ">>), JStr(<<"a">>), JStr(<<"A">>),
      JStr(<<" ", "a">>), JStr(<<"a", " ">>), JStr(<<"a", " ", "b">>),
      JStr(<<"b">>) }

LocNext == \E name \in LocationNames, dbFails \in BOOLEAN : add_location_api(name, dbFails)

LocSpec == Init /\ [][LocNext]_vars

-----------------------------------------------------------------------------
(* Properties *)

Decoded(photo) == photo.kind \in {"png", "noext"}

Kept(photo) == Decoded(photo) /\ photo.fs = "saved"

\* the entries of saved at the positions of the photos that were kept
RECURSIVE KeptNames(_, _)
KeptNames(photos, saved) ==
    IF photos = <<>> THEN <<>>
    ELSE (IF Kept(Head(photos)) THEN <<Head(saved)>> ELSE <<>>)
             \o KeptNames(Tail(photos), Tail(saved))

Created == resp.op = "add_prop" /\ resp.status = 201

\* C1: a created prop lists at most as many file names as the request carried
\* photos, and every listed name is a file of the upload folder when the
\* request returns.
C1_CreatedPhotosStored ==
    Created =>
        /\ resp.id \in DOMAIN props
        /\ Len(props[resp.id].file) <= Len(resp.data.photos.items)
        /\ \A i \in 1..Len(props[resp.id].file) : props[resp.id].file[i] \in files

C1_Witness ==
    /\ Created
    /\ Len(resp.data.photos.items) = 2
    /\ Len(props[resp.id].file) = 1
    /\ \E i \in 1..2 : resp.data.photos.items[i].fs = "vanished"

StuckBefore(i) == \E k \in 1..i : resp.file[k] \in resp.stuck

DeletedStayGone == \A id \in deleted : PropById(id).status = 404

\* C2 as stated: after a delete answered 200 none of the prop's files remains,
\* and the id answers 404 ever after.
C2_DeletePurgesAll ==
    /\ DeletedStayGone
    /\ (resp.op = "delete_prop" /\ resp.status = 200) =>
           \A i \in 1..Len(resp.file) : resp.file[i] \notin files

\* C2 as amended: after a delete answered 200, every file of the prop up to the
\* first one whose removal the file system refuses is gone (all of them when no
\* removal is refused), and the id answers 404 ever after.
C2_DeleteBestEffort ==
    /\ DeletedStayGone
    /\ (resp.op = "delete_prop" /\ resp.status = 200) =>
           \A i \in 1..Len(resp.file) : ~StuckBefore(i) => resp.file[i] \notin files

C2_Witness ==
    /\ resp.op = "delete_prop" /\ resp.status = 200
    /\ Len(resp.file) = 2
    /\ resp.stuck = {resp.file[2]}
    /\ resp.file[1] \notin files
    /\ resp.file[2] \in files
    /\ resp.id \in deleted
    /\ PropById(resp.id).status = 404

UpdateOfMissing == resp'.op = "update_prop" /\ resp'.id \notin DOMAIN props

Blank(data, key) ==
    /\ key \in DOMAIN data
    /\ data[key].t = "str"
    /\ \A i \in 1..Len(data[key].s) : data[key].s[i] = " "

BadQuantity(data) ==
    /\ "Quantity" \in DOMAIN data
    /\ data.Quantity.t # "null"
    /\ ~PyInt(data.Quantity).ok \/ PyInt(data.Quantity).v < 0

C10_RowsReferenceStoredFiles ==
    \A id \in DOMAIN props :
        /\ FilesOf(id) \subseteq files
        /\ \A other \in DOMAIN props \ {id} : FilesOf(id) \cap FilesOf(other) = {}

UpdateKeys ==
    {"Location", "Storage_id", "Description", "Keywords", "Category", "Status",
     "Quantity"}

\* C3: an update of an existing prop leaves every field the body omits at its
\* stored value.
C3_OmittedFieldsKept ==
    [][(resp'.op = "update_prop" /\ resp'.id \in DOMAIN props) =>
          /\ resp'.id \in DOMAIN props'
          /\ \A key \in UpdateKeys \ DOMAIN resp'.data :
                props'[resp'.id][key] = props[resp'.id][key]]_vars

\* C5: the stored quantity of every prop is an integer >= 0.
C5_QuantityNonNegative ==
    \A id \in DOMAIN props : props[id].Quantity \in Nat

\* C9: a create whose payload is valid but for the absent quantity key creates
\* the prop with quantity 1.
C9_AbsentQuantityDefaultsToOne ==
    (/\ resp.op = "add_prop"
     /\ "quantity" \notin DOMAIN resp.data
     /\ AddPropRefusal(resp.data @@ [quantity |-> JInt(1)]) = 0) =>
        /\ resp.status # 400
        /\ resp.status = 201 => props[resp.id].Quantity = 1

IsSubstring(term, text) ==
    \E k \in 0..(Len(text) - Len(term)) :
        \A i \in 1..Len(term) : Lower(term[i]) = Lower(text[k + i])

Searched == {"Storage_id", "Description", "Keywords", "Category", "Location"}

Contains(row, term) ==
    \E column \in Searched : row[column] # None /\ IsSubstring(term, row[column])

\* C7: the listing holds exactly the props of which the (trimmed) search term
\* is a case-insensitive substring in one of the five searched columns, every
\* prop when there is no term, ordered by timestamp descending.
C7_SearchIsSubstringMatch ==
    resp.op = "get_props" =>
        LET term == strip(resp.search)
            expected == IF term = <<>> THEN DOMAIN props
                        ELSE { id \in DOMAIN props : Contains(props[id], term) }
        IN  /\ { resp.list[i] : i \in 1..Len(resp.list) } = expected
            /\ Len(resp.list) = Cardinality(expected)
            /\ OrderedDesc(resp.list)

\* C6: location names stay unique; a create whose trimmed name is taken answers
\* 409, one whose trimmed name is empty (or missing) answers 400, and neither
\* changes the locations.
C6_LocationNamesUnique ==
    [][resp'.op = "add_location_api" =>
          LET name == resp'.name
              empty == name.t = "null" \/ strip(name.s) = <<>>
              taken == \E id \in DOMAIN locations : locations[id] = strip(name.s)
          IN  /\ \A i, j \in DOMAIN locations' :
                    i # j => locations'[i] # locations'[j]
              /\ empty => resp'.status = 400 /\ locations' = locations
              /\ (~empty /\ taken) => resp'.status = 409 /\ locations' = locations]_vars

C6_Witness ==
    /\ resp.op = "add_location_api" /\ resp.status = 409
    /\ resp.name.s # strip(resp.name.s)
    /\ Cardinality(DOMAIN locations) >= 2

====
